---- MODULE Spec2Model ----
(***************************************************************************)
(* Model of the rae agent job scheduler (src/agent/src/scheduler):         *)
(* the Scheduler facade, the JobQueue, JobPersistence and JobMonitor.      *)
(*                                                                         *)
(* Option<T> is a sequence of length 0 (None) or 1 (Some).  A JobId is a   *)
(* number; the order of the numbers is the lexicographic order of the      *)
(* strings.  Instants are natural numbers (ticks of the wall clock).       *)
(***************************************************************************)
EXTENDS Integers, Sequences, FiniteSets, TLC

\* ------------------------------------------------------------------ bounds
\* Number of distinct JobIds the callers use.
NumIds == 2
\* Last instant the wall clock reaches.
MaxTime == 2
\* Calls of Scheduler::start per process (each spawns a health loop).
MaxStarts == 2
\* Cap of the queue's total_jobs counter (it only grows under add/pop).
MaxTotalJobs == 3
\* Capacity of the executor's request channel (mpsc::channel(100) in the
\* code, scaled down with the number of JobIds).
ChannelCapacity == 1
\* Width of the u32 the retry delay's power of two is computed in.
U32Bits == 32
\* An attempt number late enough for 2^(attempt - 1) not to fit a u32.
LateAttempt == 33
\* Cap of a tracked job's execution_count and failure_count.
MaxCount == 2
\* Largest retry_policy.max_attempts of the jobs handed to the executor.
MaxAttempts == 2

JobIds == 1..NumIds
Instants == 0..MaxTime

None == << >>
Some(v) == << v >>
IsSome(o) == Len(o) = 1
IsNone(o) == Len(o) = 0
Unwrap(o) == o[1]

\* ------------------------------------------------------------- job.rs
\* enum Priority { Low = 0, Normal = 1, High = 2, Critical = 3 }
Low == 0
Normal == 1
High == 2
Critical == 3

\* Cron expressions used by the callers.  "bad" does not parse; "*/2"
\* fires at every even instant; "0 18 * * *" fires at instant 18 of every
\* day of 24 instants; "once@2" parses and has the single occurrence 2 (a
\* cron with a year field).
CronExprs == {"bad", "*/2", "0 18 * * *", "once@2"}

\* Schedule::default(): no trigger at all.
Schedule_default ==
    [cron |-> None, at |-> None, event |-> None, pattern |-> None,
     timezone |-> None]

\* RetryPolicy::default(); delays are in seconds, one second is one tick of
\* the clock.
RetryPolicy_default ==
    [max_attempts |-> 3, delay |-> 60, exponential_backoff |-> TRUE,
     max_delay |-> Some(3600)]

\* A RetryPolicy of n attempts without delay between them.
RetryPolicy_immediate(n) ==
    [max_attempts |-> n, delay |-> 0, exponential_backoff |-> TRUE,
     max_delay |-> Some(3600)]

\* An f64: a finite number, or f64::INFINITY (NaN encodes the same way).
F64(x) == [finite |-> TRUE, value |-> x]
F64_INFINITY == [finite |-> FALSE, value |-> 0]

\* ResourceLimits::default(); of the limits max_cpu and max_duration are
\* kept.
ResourceLimits_default ==
    [max_cpu |-> Some(F64(50)), max_duration |-> Some(3600)]

\* Job::new(name, command) followed by the builder calls; the id is chosen
\* by the caller of the model instead of Uuid::new_v4().
Job_new(id, command) ==
    [id |-> id, command |-> command, schedule |-> Schedule_default,
     priority |-> Normal, retry_policy |-> RetryPolicy_default,
     resource_limits |-> ResourceLimits_default, enabled |-> TRUE]

with_cron(job, c) == [job EXCEPT !.schedule.cron = Some(c)]
with_time(job, t) == [job EXCEPT !.schedule.at = Some(t)]
with_event(job, e) == [job EXCEPT !.schedule.event = Some(e)]
with_pattern(job, p) == [job EXCEPT !.schedule.pattern = Some(p)]
with_priority(job, p) == [job EXCEPT !.priority = p]
with_timezone(job, tz) == [job EXCEPT !.schedule.timezone = Some(tz)]
with_enabled(job, b) == [job EXCEPT !.enabled = b]
with_retry_policy(job, rp) == [job EXCEPT !.retry_policy = rp]
with_resource_limits(job, rl) == [job EXCEPT !.resource_limits = rl]

\* ------------------------------------------------------------ parser.rs
\* cron::Schedule::from_str(expr).is_ok()
parse_cron_ok(c) == c # "bad"

\* schedule.after(&t).next(): the first occurrence strictly after t.
cron_after(c, t) ==
    CASE c = "*/2"    -> Some(2 * ((t \div 2) + 1))
      [] c = "0 18 * * *" -> Some(IF t % 24 < 18 THEN 24 * (t \div 24) + 18
                                  ELSE 24 * ((t \div 24) + 1) + 18)
      [] c = "once@2" -> IF t < 2 THEN Some(2) ELSE None
      [] OTHER        -> None

\* Option::unwrap_or
unwrap_or(o, default) == IF IsSome(o) THEN Unwrap(o) ELSE default

\* Parser::next_cron_execution
Parser_next_cron_execution(cron_expr, after) ==
    IF parse_cron_ok(cron_expr)
    THEN [ok |-> TRUE, err |-> "",
          value |-> unwrap_or(cron_after(cron_expr, after), after)]
    ELSE [ok |-> FALSE, err |-> "InvalidCronExpression", value |-> after]

\* Parser::next_execution
Parser_next_execution(schedule, after) ==
    IF IsSome(schedule.cron)
    THEN LET r == Parser_next_cron_execution(Unwrap(schedule.cron), after)
         IN IF r.ok THEN [ok |-> TRUE, err |-> "", ret |-> Some(r.value)]
            ELSE [ok |-> FALSE, err |-> r.err, ret |-> None]
    ELSE IF IsSome(schedule.at) /\ Unwrap(schedule.at) > after
         THEN [ok |-> TRUE, err |-> "", ret |-> schedule.at]
         ELSE [ok |-> TRUE, err |-> "", ret |-> None]

\* tz.parse::<chrono_tz::Tz>().is_ok()
parse_timezone_ok(tz) == tz # "Mars/Olympus"

\* Parser::validate_event_trigger
validate_event_trigger(event) ==
    IF event.event_type \in {"FileCreated", "FileModified", "FileDeleted"}
    THEN IsSome(event.path)
    ELSE TRUE

\* Parser::validate_pattern_trigger (threshold is kept by its sign)
validate_pattern_trigger(pattern) ==
    /\ ~(pattern.threshold < 0)
    /\ ~(pattern.window = 0)

\* Parser::validate_schedule
validate_schedule(schedule) ==
    /\ IsSome(schedule.cron) => parse_cron_ok(Unwrap(schedule.cron))
    /\ IsSome(schedule.timezone) => parse_timezone_ok(Unwrap(schedule.timezone))
    /\ IsSome(schedule.event) => validate_event_trigger(Unwrap(schedule.event))
    /\ IsSome(schedule.pattern) => validate_pattern_trigger(Unwrap(schedule.pattern))

\* ------------------------------------------------------------- queue.rs
\* Mutant of calculate_next_execution: the `at > now` test is missing, a
\* one-shot instant is kept as next_execution even when it is past.
calculate_next_execution_keeps_past(job, t) ==
    IF ~job.enabled THEN None
    ELSE IF /\ IsSome(job.schedule.cron)
            /\ parse_cron_ok(Unwrap(job.schedule.cron))
         THEN cron_after(Unwrap(job.schedule.cron), t)
    ELSE IF IsSome(job.schedule.at)
         THEN job.schedule.at
    ELSE None

\* JobQueue::calculate_next_execution at wall-clock instant t
calculate_next_execution(job, t) ==
    IF ~job.enabled THEN None
    ELSE IF /\ IsSome(job.schedule.cron)
            /\ parse_cron_ok(Unwrap(job.schedule.cron))
         THEN cron_after(Unwrap(job.schedule.cron), t)
    ELSE IF IsSome(job.schedule.at) /\ Unwrap(job.schedule.at) > t
         THEN job.schedule.at
    ELSE None

\* Ord for integers and instants
cmp_int(x, y) == IF x < y THEN "Less" ELSE IF x > y THEN "Greater" ELSE "Equal"

\* Mutant of QueuedJob_cmp: the priority comparison is taken the wrong way
\* round (lower priority is greater).
QueuedJob_cmp_low_first(self, other) ==
    IF cmp_int(self.priority, other.priority) = "Equal"
    THEN CASE IsSome(self.next_execution) /\ IsSome(other.next_execution) ->
                cmp_int(Unwrap(self.next_execution), Unwrap(other.next_execution))
           [] IsSome(self.next_execution) /\ IsNone(other.next_execution) -> "Less"
           [] IsNone(self.next_execution) /\ IsSome(other.next_execution) -> "Greater"
           [] OTHER -> "Equal"
    ELSE cmp_int(other.priority, self.priority)

\* impl Ord for QueuedJob: cmp(self, other)
QueuedJob_cmp(self, other) ==
    IF cmp_int(self.priority, other.priority) = "Equal"
    THEN CASE IsSome(self.next_execution) /\ IsSome(other.next_execution) ->
                cmp_int(Unwrap(self.next_execution), Unwrap(other.next_execution))
           [] IsSome(self.next_execution) /\ IsNone(other.next_execution) -> "Less"
           [] IsNone(self.next_execution) /\ IsSome(other.next_execution) -> "Greater"
           [] OTHER -> "Equal"
    ELSE cmp_int(self.priority, other.priority)

\* BinaryHeap::peek(): the heap's head is a greatest entry under Ord; which
\* one among entries that compare Equal depends on the heap's layout (the
\* insertion order and the HashMap iteration order of rebuild_queue).
heap_heads(heap) ==
    {e \in heap : \A o \in heap : QueuedJob_cmp(o, e) # "Greater"}

\* JobQueue::new()
JobQueue_new ==
    [jobs |-> {}, job_index |-> << >>,
     stats |-> [total_jobs |-> 0, scheduled_jobs |-> 0]]

contains_key(map, k) == k \in DOMAIN map
map_insert(map, k, v) == [x \in (DOMAIN map) \cup {k} |-> IF x = k THEN v ELSE map[x]]
map_remove(map, k) == [x \in (DOMAIN map) \ {k} |-> map[x]]
map_values(map) == {map[k] : k \in DOMAIN map}

Ok(q) == [ok |-> TRUE, err |-> "", q |-> q]
Err(e, q) == [ok |-> FALSE, err |-> e, q |-> q]

\* Mutant of JobQueue::add_job: the duplicate check is missing, the entry
\* of a known id is replaced.
JobQueue_add_job_overwriting(q, job, t) ==
    LET queued_job == [job |-> job,
                       next_execution |-> calculate_next_execution(job, t),
                       priority |-> job.priority]
    IN Ok([jobs |-> q.jobs \cup {queued_job},
           job_index |-> map_insert(q.job_index, job.id, queued_job),
           stats |-> [total_jobs |-> q.stats.total_jobs + 1,
                      scheduled_jobs |-> q.stats.scheduled_jobs + 1]])

\* JobQueue::add_job at wall-clock instant t
JobQueue_add_job(q, job, t) ==
    IF contains_key(q.job_index, job.id)
    THEN Err("JobAlreadyExists", q)
    ELSE LET queued_job == [job |-> job,
                            next_execution |-> calculate_next_execution(job, t),
                            priority |-> job.priority]
         IN Ok([jobs |-> q.jobs \cup {queued_job},
                job_index |-> map_insert(q.job_index, job.id, queued_job),
                stats |-> [total_jobs |-> q.stats.total_jobs + 1,
                           scheduled_jobs |-> q.stats.scheduled_jobs + 1]])

\* JobQueue::rebuild_queue
rebuild_queue(q) == [q EXCEPT !.jobs = map_values(q.job_index)]

\* Mutant of JobQueue::remove_job: the contains_key check is missing.
JobQueue_remove_job_unchecked(q, job_id) ==
    LET removed == [q EXCEPT !.job_index = map_remove(q.job_index, job_id)]
        rebuilt == rebuild_queue(removed)
    IN Ok([rebuilt EXCEPT
             !.stats.total_jobs = Cardinality(DOMAIN rebuilt.job_index),
             !.stats.scheduled_jobs = Cardinality(rebuilt.jobs)])

\* JobQueue::remove_job
JobQueue_remove_job(q, job_id) ==
    IF ~contains_key(q.job_index, job_id)
    THEN Err("JobNotFound", q)
    ELSE LET removed == [q EXCEPT !.job_index = map_remove(q.job_index, job_id)]
             rebuilt == rebuild_queue(removed)
         IN Ok([rebuilt EXCEPT
                  !.stats.total_jobs = Cardinality(DOMAIN rebuilt.job_index),
                  !.stats.scheduled_jobs = Cardinality(rebuilt.jobs)])

\* Mutant of get_next_job_at: the head is popped without comparing its
\* next_execution with the clock.
get_next_job_at_ignoring_time(q, head, t) ==
    [ret |-> Some(head.job),
     q |-> [q EXCEPT !.jobs = q.jobs \ {head},
                     !.job_index = map_remove(q.job_index, head.job.id),
                     !.stats.scheduled_jobs = Cardinality(q.jobs \ {head})]]

\* Mutant of get_next_job_at: the head is popped from the heap and left in
\* the index.
get_next_job_at_keeps_index(q, head, t) ==
    LET popped == [q EXCEPT !.jobs = q.jobs \ {head},
                            !.stats.scheduled_jobs = Cardinality(q.jobs \ {head})]
    IN IF IsSome(head.next_execution)
       THEN IF Unwrap(head.next_execution) <= t
            THEN [ret |-> Some(head.job), q |-> popped]
            ELSE [ret |-> None, q |-> q]
       ELSE [ret |-> Some(head.job), q |-> popped]

\* One iteration of get_next_job's loop with `head` the entry peek() gives:
\* every branch returns or breaks, so the loop body runs at most once.
get_next_job_at(q, head, t) ==
    LET popped == [q EXCEPT !.jobs = q.jobs \ {head},
                            !.job_index = map_remove(q.job_index, head.job.id),
                            !.stats.scheduled_jobs = Cardinality(q.jobs \ {head})]
    IN IF IsSome(head.next_execution)
       THEN IF Unwrap(head.next_execution) <= t
            THEN [ret |-> Some(head.job), q |-> popped]
            ELSE [ret |-> None, q |-> q]
       ELSE [ret |-> Some(head.job), q |-> popped]

\* JobQueue::get_next_job at wall-clock instant t: the outcomes the heap's
\* layout allows.
JobQueue_get_next_job(q, t) ==
    IF q.jobs = {}
    THEN {[ret |-> None, q |-> q]}
    ELSE {get_next_job_at(q, head, t) : head \in heap_heads(q.jobs)}

\* The filter of JobQueue::get_due_jobs
is_due(qj, t) ==
    IF IsSome(qj.next_execution) THEN Unwrap(qj.next_execution) <= t ELSE TRUE

\* JobQueue::get_due_jobs
JobQueue_get_due_jobs(q, t) ==
    {qj.job : qj \in {e \in map_values(q.job_index) : is_due(e, t)}}

\* JobQueue::update_job
JobQueue_update_job(q, job, t) ==
    LET removed == JobQueue_remove_job(q, job.id)
    IN IF ~removed.ok THEN removed ELSE JobQueue_add_job(removed.q, job, t)

\* JobQueue::clear
JobQueue_clear(q) == JobQueue_new

\* JobQueue::len
JobQueue_len(q) == Cardinality(DOMAIN q.job_index)

\* ------------------------------------------------------- persistence.rs
\* serde's encoding of Priority: the variant's name.
PriorityName(p) ==
    CASE p = Low -> "Low" [] p = Normal -> "Normal" [] p = High -> "High"
      [] OTHER -> "Critical"

PriorityOfName(n) ==
    CASE n = "Low" -> Low [] n = "Normal" -> Normal [] n = "High" -> High
      [] OTHER -> Critical

\* serde_json's encoding of an Option<f64>: a number, or null for None and
\* for a value that is not finite (serialize_f64 writes null for those).
Json_null == [null |-> TRUE, number |-> 0]
Json_number(x) == [null |-> FALSE, number |-> x]
serialize_option_f64(o) ==
    IF IsSome(o) /\ Unwrap(o).finite THEN Json_number(Unwrap(o).value)
    ELSE Json_null

\* serde_json's decoding of an Option<f64>: null is None.
deserialize_option_f64(v) == IF v.null THEN None ELSE Some(F64(v.number))

\* serde_json::to_string_pretty(job): the JSON document written to the file.
to_string_pretty(job) ==
    [bytes |-> "json",
     doc |-> [id |-> job.id, command |-> job.command, schedule |-> job.schedule,
              priority |-> PriorityName(job.priority),
              retry_policy |-> job.retry_policy,
              resource_limits |->
                 [max_cpu |-> serialize_option_f64(job.resource_limits.max_cpu),
                  max_duration |-> job.resource_limits.max_duration],
              enabled |-> job.enabled]]

\* A file whose content is no JSON document of a Job.
Garbage == [bytes |-> "garbage"]

\* What File::create leaves before write_all: an empty file.
EmptyFile == [bytes |-> "empty"]

\* serde_json::from_str::<Job>(&content): None when the content does not
\* decode.
from_str(content) ==
    IF content.bytes = "json"
    THEN Some([id |-> content.doc.id, command |-> content.doc.command,
               schedule |-> content.doc.schedule,
               priority |-> PriorityOfName(content.doc.priority),
               retry_policy |-> content.doc.retry_policy,
               resource_limits |->
                  [max_cpu |-> deserialize_option_f64(
                                  content.doc.resource_limits.max_cpu),
                   max_duration |-> content.doc.resource_limits.max_duration],
               enabled |-> content.doc.enabled])
    ELSE None

\* JobPersistence::save_job, first half: File::create(<id>.json)
save_job_create(dir, job) == map_insert(dir, job.id, EmptyFile)

\* JobPersistence::save_job, second half: write_all + flush
save_job_write(dir, job) == map_insert(dir, job.id, to_string_pretty(job))

\* Mutant of delete_job: the file is left in place.
delete_job_keeps_file(dir, job_id) == dir

\* JobPersistence::delete_job
delete_job(dir, job_id) ==
    IF contains_key(dir, job_id) THEN map_remove(dir, job_id) ELSE dir

\* JobPersistence::load_job
load_job(dir, job_id) ==
    IF ~contains_key(dir, job_id)
    THEN [ok |-> FALSE, err |-> "JobNotFound", job |-> None]
    ELSE IF IsSome(from_str(dir[job_id]))
         THEN [ok |-> TRUE, err |-> "", job |-> from_str(dir[job_id])]
         ELSE [ok |-> FALSE, err |-> "SerializationError", job |-> None]

\* Names of files in the storage directory.  The file <id>.json is named
\* by the JobId; CopyJson is a .json file whose stem is no JobId in use,
\* NotesTxt a file with another extension.
CopyJson == 0
NotesTxt == -1

\* path.extension() == Some("json")
has_json_extension(name) == name # NotesTxt

\* JobPersistence::list_jobs: one entry for each .json file that decodes,
\* with its job (the Vec in no particular order).
list_jobs(dir) ==
    {[file |-> f, job |-> Unwrap(from_str(dir[f]))]
       : f \in {i \in DOMAIN dir :
                  has_json_extension(i) /\ IsSome(from_str(dir[i]))}}

\* ----------------------------------------------------------- monitor.rs
\* The JobHealth track_job inserts.
JobHealth_new(job_id) ==
    [job_id |-> job_id, status |-> "Scheduled", execution_count |-> 0,
     failure_count |-> 0]

MonitorStats_default ==
    [total_jobs |-> 0, running_jobs |-> 0, completed_jobs |-> 0,
     failed_jobs |-> 0, cancelled_jobs |-> 0]

CountStatus(tracked, st) ==
    Cardinality({id \in DOMAIN tracked : tracked[id].status = st})

\* JobMonitor::update_stats_internal, once it holds the read guard: the
\* statistics it stores.
update_stats_internal(tracked) ==
    [total_jobs |-> Cardinality(DOMAIN tracked),
     running_jobs |-> CountStatus(tracked, "Running"),
     completed_jobs |-> CountStatus(tracked, "Completed"),
     failed_jobs |-> CountStatus(tracked, "Failed"),
     cancelled_jobs |-> CountStatus(tracked, "Cancelled")]

\* What update_job_status does to the JobHealth of the job.
update_health(health, status) ==
    [health EXCEPT
       !.status = status,
       !.execution_count = IF status = "Completed" THEN @ + 1 ELSE @,
       !.failure_count = IF status = "Failed" THEN @ + 1 ELSE @]

RECURSIVE SumOf(_, _, _)
\* The sum of a counter over the tracked jobs `ids`.
SumOf(tracked, ids, field) ==
    IF ids = {} THEN 0
    ELSE LET id == CHOOSE x \in ids : TRUE
         IN tracked[id][field] + SumOf(tracked, ids \ {id}, field)

\* update_stats_internal's total_executions: the execution_count of the
\* jobs whose status is Completed.
total_executions(tracked) ==
    SumOf(tracked, {id \in DOMAIN tracked : tracked[id].status = "Completed"},
          "execution_count")

\* update_stats_internal's total_failures: the failure_count of the jobs
\* whose status is Failed.
total_failures(tracked) ==
    SumOf(tracked, {id \in DOMAIN tracked : tracked[id].status = "Failed"},
          "failure_count")

\* tokio RwLock: read().await completes only while no write guard is alive.
read_available(writer) == writer = "none"

\* tokio RwLock: write().await completes only while no guard is alive
\* (read guards are held within single steps here).
write_available(writer) == writer = "none"

\* The write guard a monitor operation of `task` holds when it calls
\* update_stats: track_job, untrack_job, update_job_status and
\* perform_health_checks all keep `tracked_jobs.write().await` alive until
\* they return.
guard_during_update_stats(task) == task

\* ---------------------------------------------------------- executor.rs
\* Mutant of JobExecutor::validate_job: the enabled flag is not looked at.
JobExecutor_validate_job_any_enabled(job) == job.command # ""

\* JobExecutor::validate_job
JobExecutor_validate_job(job) == job.command # "" /\ job.enabled

\* JobExecutionRequest and RunningJob
JobExecutionRequest(job, attempt) == [job |-> job, attempt |-> attempt]
RunningJob(request, start_time) ==
    [job |-> request.job, start_time |-> start_time,
     attempt |-> request.attempt]

\* What command.output() gives: the process exited with a code, was ended
\* by a signal (no code), or could not be spawned.
Exited(code) == [spawned |-> TRUE, code |-> Some(code)]
Signalled == [spawned |-> TRUE, code |-> None]
SpawnFailed == [spawned |-> FALSE, code |-> None]
ProcessOutputs == {Exited(0), Exited(1), Signalled, SpawnFailed}

\* ExitStatus::success()
success(output) == output.code = Some(0)

\* Mutant of status_of: every process that was spawned counts as
\* completed.
status_of_spawned(output) ==
    IF output.spawned THEN "Completed" ELSE "Failed"

\* The status execute_single_job gives the JobResult.
status_of(output) ==
    IF output.spawned /\ success(output) THEN "Completed" ELSE "Failed"

\* The JobResult execute_single_job returns for a run from start_time to
\* end_time.
execute_single_job(output, start_time, end_time) ==
    [status |-> status_of(output), started_at |-> start_time,
     ended_at |-> Some(end_time), exit_code |-> output.code]

\* The JobResult cancel_job stores for a job it took out of running_jobs.
cancelled_result(running_job, t) ==
    [status |-> "Cancelled", started_at |-> running_job.start_time,
     ended_at |-> Some(t), exit_code |-> None]

\* mpsc::Sender::send(request).await completes when the channel has room.
send_available(channel) == Len(channel) < ChannelCapacity

\* process_jobs' retry test on the result of a run.
retry_wanted(status, request) ==
    status = "Failed" /\ request.attempt < request.job.retry_policy.max_attempts

\* 2_u32.pow(exp): the value when it fits 32 bits; on overflow the build
\* with overflow checks panics and the build without them wraps (2^exp is
\* 0 modulo 2^32 for every exp >= 32).
pow2_u32(exp) ==
    IF exp < U32Bits
    THEN {[panic |-> FALSE, value |-> 2^exp]}
    ELSE {[panic |-> TRUE, value |-> 0], [panic |-> FALSE, value |-> 0]}

min(x, y) == IF x <= y THEN x ELSE y

\* JobExecutor::calculate_retry_delay: the outcomes the builds can give,
\* a panic or a Duration in seconds (the product base_delay * factor fits
\* a Duration for the delays used here).
calculate_retry_delay(job, attempt) ==
    LET rp == job.retry_policy
        capped(d) == IF IsSome(rp.max_delay) THEN min(d, Unwrap(rp.max_delay))
                     ELSE d
    IN IF rp.exponential_backoff
       THEN {[panic |-> f.panic,
              secs |-> IF f.panic THEN 0 ELSE capped(rp.delay * f.value)]
               : f \in pow2_u32(attempt - 1)}
       ELSE {[panic |-> FALSE, secs |-> rp.delay]}

\* Mutant of sleep_until: the sleep returns at once.
sleep_until_at_once(t, secs) == t

\* tokio::time::sleep(delay) called at instant t completes at the first
\* instant that is not before t + delay.
sleep_until(t, secs) == t + secs

\* ---------------------------------------------------------------- mod.rs
\* Scheduler::validate_job
validate_job(job) ==
    /\ IsSome(job.schedule.cron) => parse_cron_ok(Unwrap(job.schedule.cron))
    /\ job.command # ""

\* ------------------------------------------------------------- the state
VARIABLES
    now,            \* Utc::now()
    queue,          \* Scheduler.queue: the JobQueue {jobs, job_index, stats}
    files,          \* the storage directory: JobId -> content of <id>.json
    tracked_jobs,   \* JobMonitor.tracked_jobs: JobId -> JobHealth
    tracked_writer, \* holder of the write guard of tracked_jobs' RwLock
    monitor,        \* JobMonitor {stats, is_active}
    health_loops,   \* the monitoring loops spawned by JobMonitor::start
    pc,             \* where the caller of the facade stands
    call,           \* the facade call in progress (or the last one)
    result,         \* what the last facade call returned
    qcall,          \* the last direct call of a component's API and its result
    job_channel,    \* JobExecutor: the requests in the mpsc channel
    running_jobs,   \* JobExecutor.running_jobs: JobId -> RunningJob
    job_results,    \* JobExecutor.job_results: JobId -> JobResult
    worker,         \* where the process_jobs task stands, and its request
    runs            \* per submitted JobId: the job and the runs it has had

queueVars == <<queue>>
persistVars == <<files>>
monitorVars == <<tracked_jobs, tracked_writer, monitor, health_loops>>
callerVars == <<pc, call, result>>
execVars == <<job_channel, running_jobs, job_results, worker, runs>>
vars == <<now, queue, files, tracked_jobs, tracked_writer, monitor,
          health_loops, pc, call, result, qcall, execVars>>

\* ------------------------------------------------------------ the inputs
SystemStartup == [event_type |-> "SystemStartup", path |-> None]
FileCreatedNoPath == [event_type |-> "FileCreated", path |-> None]
NegativeThreshold == [pattern_type |-> "HighCpuUsage", threshold |-> -1, window |-> 60]
ZeroWindow == [pattern_type |-> "HighCpuUsage", threshold |-> 80, window |-> 0]

\* Jobs handed to the JobQueue API directly: one-shot and event triggers
\* at Low priority, a cron job at the default priority, a one-shot at High
\* priority and a disabled job.
QueueInputs ==
    UNION {
      { with_priority(with_time(Job_new(id, "echo"), 1), Low),
        with_priority(with_time(Job_new(id, "echo"), 2), Low),
        with_priority(with_event(Job_new(id, "echo"), SystemStartup), Low),
        with_cron(Job_new(id, "echo"), "*/2"),
        with_priority(with_time(Job_new(id, "echo"), MaxTime + 1), High),
        with_enabled(with_time(Job_new(id, "echo"), MaxTime + 1), FALSE) }
      : id \in JobIds }

NoCall == [op |-> "none", id |-> 0, ok |-> TRUE, err |-> "", ret |-> None]

\* The monitoring loops by where they stand: at the loop's condition, at
\* interval.tick(), inside perform_health_checks, or ended.
NoLoops == [check |-> 0, tick |-> 0, update_stats |-> 0, exited |-> 0]
Spawned(loops) == loops.check + loops.tick + loops.update_stats + loops.exited

NoFacadeCall == [op |-> "none", id |-> 0, job |-> None, pending |-> {}]
NoResult == [status |-> "none", err |-> "", id |-> 0, infos |-> {}]
Pending == [status |-> "pending", err |-> "", id |-> 0, infos |-> {}]
ReturnOk == [status |-> "Ok", err |-> "", id |-> 0, infos |-> {}]
ReturnErr(e) == [status |-> "Err", err |-> e, id |-> 0, infos |-> {}]

\* The process_jobs task waiting in job_receiver.recv().
WorkerIdle ==
    [pc |-> "recv", request |-> None, start_time |-> None, result |-> None,
     wake |-> None]

Init ==
    /\ now = 0
    /\ queue = JobQueue_new
    /\ files = << >>
    /\ tracked_jobs = << >>
    /\ tracked_writer = "none"
    /\ monitor = [stats |-> MonitorStats_default, is_active |-> FALSE]
    /\ health_loops = NoLoops
    /\ pc = "idle"
    /\ call = NoFacadeCall
    /\ result = NoResult
    /\ qcall = NoCall
    /\ job_channel = << >>
    /\ running_jobs = << >>
    /\ job_results = << >>
    /\ worker = WorkerIdle
    /\ runs = << >>

\* The wall clock advances.
Tick ==
    /\ now < MaxTime
    /\ now' = now + 1
    /\ UNCHANGED <<execVars, queue, files, tracked_jobs, tracked_writer, monitor,
                   health_loops, pc, call, result, qcall>>

\* --------------------------------------- direct calls of the JobQueue API
facadeVars == <<files, tracked_jobs, tracked_writer, monitor, health_loops,
                pc, call, result>>

Queue_add_job(job) ==
    /\ queue.stats.total_jobs < MaxTotalJobs
    /\ LET r == JobQueue_add_job(queue, job, now)
       IN /\ queue' = r.q
          /\ qcall' = [op |-> "add_job", id |-> job.id, ok |-> r.ok,
                       err |-> r.err, ret |-> None]
    /\ UNCHANGED <<execVars, now, facadeVars>>

Queue_remove_job(job_id) ==
    /\ LET r == JobQueue_remove_job(queue, job_id)
       IN /\ queue' = r.q
          /\ qcall' = [op |-> "remove_job", id |-> job_id, ok |-> r.ok,
                       err |-> r.err, ret |-> None]
    /\ UNCHANGED <<execVars, now, facadeVars>>

Queue_get_next_job ==
    /\ \E r \in JobQueue_get_next_job(queue, now) :
          /\ queue' = r.q
          /\ qcall' = [op |-> "get_next_job", id |-> 0, ok |-> TRUE,
                       err |-> "", ret |-> r.ret]
    /\ UNCHANGED <<execVars, now, facadeVars>>

Queue_update_job(job) ==
    /\ queue.stats.total_jobs < MaxTotalJobs
    /\ LET r == JobQueue_update_job(queue, job, now)
       IN /\ queue' = r.q
          /\ qcall' = [op |-> "update_job", id |-> job.id, ok |-> r.ok,
                       err |-> r.err, ret |-> None]
    /\ UNCHANGED <<execVars, now, facadeVars>>

Queue_clear ==
    /\ queue' = JobQueue_clear(queue)
    /\ qcall' = [op |-> "clear", id |-> 0, ok |-> TRUE, err |-> "", ret |-> None]
    /\ UNCHANGED <<execVars, now, facadeVars>>

QueueNext ==
    \/ Tick
    \/ \E job \in QueueInputs : Queue_add_job(job)
    \/ \E job_id \in JobIds : Queue_remove_job(job_id)
    \/ Queue_get_next_job
    \/ \E job \in QueueInputs : Queue_update_job(job)
    \/ Queue_clear

QueueSpec == Init /\ [][QueueNext]_vars

\* ------------------------------------------------- claims on the JobQueue
\* The job get_next_job returned in the last step, and the entry it had.
Returned == Unwrap(qcall'.ret)
ReturnedEntry == queue.job_index[Returned.id]

\* C8: get_next_job never returns a job while a due job of strictly higher
\* priority is queued: of two due jobs the one of higher priority is
\* returned first, whatever the insertion order.
C8_PriorityOrder ==
    [][Queue_get_next_job /\ IsSome(qcall'.ret) =>
         \A a \in queue.jobs : is_due(a, now) => a.priority <= Returned.priority]_vars

\* C8 witness: get_next_job has returned a job while a due job of lower
\* priority is still queued.
C8_Witness ==
    /\ qcall.op = "get_next_job" /\ IsSome(qcall.ret)
    /\ \E b \in queue.jobs :
          b.priority < Unwrap(qcall.ret).priority /\ is_due(b, now)

\* The order the tie-break rule states for entries of one priority: earlier
\* next_execution first, entries without next_execution last, equal
\* next_execution by JobId.
TieBreakBefore(x, y) ==
    CASE IsSome(x.next_execution) /\ IsSome(y.next_execution) ->
            \/ Unwrap(x.next_execution) < Unwrap(y.next_execution)
            \/ /\ Unwrap(x.next_execution) = Unwrap(y.next_execution)
               /\ x.job.id < y.job.id
      [] IsSome(x.next_execution) /\ IsNone(y.next_execution) -> TRUE
      [] IsNone(x.next_execution) /\ IsSome(y.next_execution) -> FALSE
      [] OTHER -> x.job.id < y.job.id

\* C9: among queued jobs of the same priority get_next_job returns the one
\* with the earlier next_execution first (none last), and among equal
\* next_execution the smaller JobId first.
C9_TieBreakOrder ==
    [][Queue_get_next_job /\ IsSome(qcall'.ret) =>
         \A y \in queue.jobs :
            (y.priority = ReturnedEntry.priority /\ y.job.id # Returned.id)
               => TieBreakBefore(ReturnedEntry, y)]_vars

C11_DisabledNeverDue ==
    [][/\ (Queue_get_next_job /\ IsSome(qcall'.ret)) => Returned.enabled
       /\ \A job \in JobQueue_get_due_jobs(queue', now') : job.enabled]_vars

\* C12: JobQueue::add_job with a JobId already in the queue returns
\* JobAlreadyExists and leaves heap, index, stored definition and
\* statistics unchanged.
C12_DuplicateAddRejected ==
    [][\A job \in QueueInputs :
         (Queue_add_job(job) /\ contains_key(queue.job_index, job.id))
           => /\ ~qcall'.ok /\ qcall'.err = "JobAlreadyExists"
              /\ queue' = queue]_vars

\* C12 witness: add_job has returned JobAlreadyExists for an id that is
\* queued.
C12_Witness ==
    /\ qcall.op = "add_job" /\ qcall.err = "JobAlreadyExists"
    /\ contains_key(queue.job_index, qcall.id)
    /\ \E e \in queue.jobs : e.job.id = qcall.id

\* An enabled job with only `at` set, and a queue entry of such a job that
\* was queued when its instant was not in the future (no next_execution).
OneShot(job) ==
    /\ job.enabled
    /\ IsSome(job.schedule.at) /\ IsNone(job.schedule.cron)
    /\ IsNone(job.schedule.event) /\ IsNone(job.schedule.pattern)
PastOneShotEntry(e) == OneShot(e.job) /\ IsNone(e.next_execution)
NoEntryOf(q, id) ==
    ~contains_key(q.job_index, id) /\ \A e \in q.jobs : e.job.id # id

ParserSchedules ==
    [cron : {None} \cup {Some(c) : c \in CronExprs},
     at : {None} \cup {Some(t) : t \in 1..(MaxTime + 1)},
     event : {None, Some(SystemStartup)},
     pattern : {None}, timezone : {None}]

\* The instants passed as `after`.
AfterInstants == 0..(MaxTime + 1)

\* Parser::next_execution(schedule, after)
Parse_next_execution(schedule, after) ==
    /\ LET r == Parser_next_execution(schedule, after)
       IN qcall' = [op |-> "next_execution", id |-> 0, ok |-> r.ok,
                    err |-> r.err, ret |-> r.ret,
                    args |-> [schedule |-> schedule, after |-> after]]
    /\ UNCHANGED <<now, queue, facadeVars, execVars>>

\* The caller feeds the instant next_execution has returned back as
\* `after`, for the same schedule.
Parse_next_execution_again ==
    /\ qcall.op = "next_execution"
    /\ IsSome(qcall.ret)
    /\ Unwrap(qcall.ret) \in AfterInstants
    /\ Parse_next_execution(qcall.args.schedule, Unwrap(qcall.ret))

\* JobQueue::calculate_next_execution(job), which reads Utc::now().
Queue_calculate_next_execution(job) ==
    /\ qcall' = [op |-> "calculate_next_execution", id |-> job.id,
                 ok |-> TRUE, err |-> "",
                 ret |-> calculate_next_execution(job, now),
                 args |-> [schedule |-> job.schedule, after |-> now]]
    /\ UNCHANGED <<now, queue, facadeVars, execVars>>

ParserNext ==
    \/ Tick
    \/ \E schedule \in ParserSchedules : \E after \in AfterInstants :
          Parse_next_execution(schedule, after)
    \/ Parse_next_execution_again
    \/ \E schedule \in ParserSchedules :
          Queue_calculate_next_execution(
             [Job_new(1, "echo") EXCEPT !.schedule = schedule])

ParserSpec == Init /\ [][ParserNext]_vars

\* ---------------------------------- direct calls of the JobPersistence API
\* Jobs handed to save_job: a cron job, another definition of it (High
\* priority), a one-shot job, a disabled job, and jobs without a CPU
\* limit, written as None and as Some(f64::INFINITY).
PersistInputs ==
    UNION {
      { with_cron(Job_new(id, "echo"), "0 18 * * *"),
        with_priority(with_cron(Job_new(id, "echo"), "0 18 * * *"), High),
        with_priority(with_time(Job_new(id, "echo"), 1), Low),
        with_enabled(with_event(Job_new(id, "echo"), SystemStartup), FALSE),
        with_resource_limits(Job_new(id, "echo"),
                             [max_cpu |-> None, max_duration |-> Some(3600)]),
        with_resource_limits(Job_new(id, "echo"),
                             [max_cpu |-> Some(F64_INFINITY),
                              max_duration |-> Some(3600)]) }
      : id \in JobIds }

\* JobPersistence::save_job
Persist_save_job(job) ==
    /\ files' = save_job_write(save_job_create(files, job), job)
    /\ qcall' = [op |-> "save_job", id |-> job.id, ok |-> TRUE, err |-> "",
                 ret |-> None, args |-> [job |-> job]]
    /\ UNCHANGED <<now, queue, monitorVars, callerVars, execVars>>

\* JobPersistence::load_job
Persist_load_job(job_id) ==
    /\ LET r == load_job(files, job_id)
       IN qcall' = [op |-> "load_job", id |-> job_id, ok |-> r.ok,
                    err |-> r.err, ret |-> r.job]
    /\ UNCHANGED <<now, queue, files, monitorVars, callerVars, execVars>>

\* JobPersistence::delete_job
Persist_delete_job(job_id) ==
    /\ files' = delete_job(files, job_id)
    /\ qcall' = [op |-> "delete_job", id |-> job_id, ok |-> TRUE, err |-> "",
                 ret |-> None]
    /\ UNCHANGED <<now, queue, monitorVars, callerVars, execVars>>

PersistNext ==
    \/ \E job \in PersistInputs : Persist_save_job(job)
    \/ \E job_id \in JobIds : Persist_load_job(job_id)
    \/ \E job_id \in JobIds : Persist_delete_job(job_id)

PersistSpec == Init /\ [][PersistNext]_vars

\* ------------------------------------- direct calls of the JobExecutor API
\* Jobs handed to JobExecutor::execute_job: jobs with max_attempts from 1 to
\* MaxAttempts and no retry delay, a job with an empty command and a
\* disabled job.
ExecInputs ==
    UNION {
      { with_retry_policy(Job_new(id, "echo"), RetryPolicy_immediate(n))
          : n \in 1..MaxAttempts }
      \cup { Job_new(id, ""), with_enabled(Job_new(id, "echo"), FALSE) }
      : id \in JobIds }

\* What `runs` records of a submission: the job, the status of each of its
\* runs in order (the run's attempt number is its position), whether
\* cancel_job has removed it from the running-set, and the instant the
\* result of its last run was stored.
Submission(job) ==
    [job |-> job, log |-> << >>, cancelled |-> FALSE, stored_at |-> None]

\* JobExecutor::execute_job.  A JobId is submitted once, so that the runs
\* recorded for an id are the runs of one submission.
Exec_execute_job(job) ==
    /\ ~contains_key(runs, job.id)
    /\ IF JobExecutor_validate_job(job)
       THEN /\ send_available(job_channel)
            /\ job_channel' = Append(job_channel, JobExecutionRequest(job, 1))
            /\ runs' = map_insert(runs, job.id, Submission(job))
            /\ qcall' = [op |-> "execute_job", id |-> job.id, ok |-> TRUE,
                         err |-> "", ret |-> None]
       ELSE /\ qcall' = [op |-> "execute_job", id |-> job.id, ok |-> FALSE,
                         err |-> "InvalidJob", ret |-> None]
            /\ UNCHANGED <<job_channel, runs>>
    /\ UNCHANGED <<now, queue, facadeVars, running_jobs, job_results, worker>>

\* JobExecutor::cancel_job
Exec_cancel_job(job_id) ==
    /\ IF contains_key(running_jobs, job_id)
       THEN /\ running_jobs' = map_remove(running_jobs, job_id)
            /\ job_results' =
                  map_insert(job_results, job_id,
                             cancelled_result(running_jobs[job_id], now))
            /\ runs' = [runs EXCEPT ![job_id].cancelled = TRUE]
       ELSE UNCHANGED <<running_jobs, job_results, runs>>
    /\ qcall' = [op |-> "cancel_job", id |-> job_id, ok |-> TRUE, err |-> "",
                 ret |-> None]
    /\ UNCHANGED <<now, queue, facadeVars, job_channel, worker>>

\* JobExecutor::stop: logs and returns Ok(()).
Exec_stop ==
    /\ qcall' = [op |-> "stop", id |-> 0, ok |-> TRUE, err |-> "", ret |-> None]
    /\ UNCHANGED <<now, queue, facadeVars, execVars>>

\* process_jobs: job_receiver.recv() gives a request, which is put into
\* running_jobs, and execute_single_job reads its start_time and spawns
\* the process.
Worker_recv ==
    /\ worker.pc = "recv"
    /\ job_channel # << >>
    /\ LET request == Head(job_channel)
       IN /\ job_channel' = Tail(job_channel)
          /\ running_jobs' = map_insert(running_jobs, request.job.id,
                                        RunningJob(request, now))
          /\ worker' = [pc |-> "execute", request |-> Some(request),
                        start_time |-> Some(now), result |-> None,
                        wake |-> None]
    /\ UNCHANGED <<now, queue, facadeVars, qcall, job_results, runs>>

\* process_jobs: command.output() has returned, execute_single_job returns
\* its JobResult, and the job is taken out of running_jobs.
Worker_execute(output) ==
    /\ worker.pc = "execute"
    /\ LET job_id == Unwrap(worker.request).job.id
           job_result == execute_single_job(output, Unwrap(worker.start_time),
                                            now)
       IN /\ running_jobs' = map_remove(running_jobs, job_id)
          /\ runs' = [runs EXCEPT ![job_id].log = Append(@, job_result.status)]
          /\ worker' = [worker EXCEPT !.pc = "store",
                                      !.result = Some(job_result)]
    /\ UNCHANGED <<now, queue, facadeVars, qcall, job_channel, job_results>>

\* process_jobs: the result is stored, and the retry test decides whether
\* the task computes the retry delay and sleeps (or panics in the
\* computation) or takes the next request.
Worker_store ==
    /\ worker.pc = "store"
    /\ LET request == Unwrap(worker.request)
           job_result == Unwrap(worker.result)
           status == job_result.status
       IN /\ job_results' = map_insert(job_results, request.job.id,
                                       job_result)
          /\ runs' = [runs EXCEPT ![request.job.id].stored_at = Some(now)]
          /\ IF retry_wanted(status, request)
             THEN \E delay \in calculate_retry_delay(request.job,
                                                     request.attempt) :
                     worker' =
                        IF delay.panic
                        THEN [worker EXCEPT !.pc = "panicked"]
                        ELSE [worker EXCEPT
                                !.pc = "retry",
                                !.wake = Some(sleep_until(now, delay.secs))]
             ELSE worker' = WorkerIdle
    /\ UNCHANGED <<now, queue, facadeVars, qcall, job_channel, running_jobs>>

\* process_jobs: the retry delay is over and the request of the next
\* attempt is sent into the task's own channel.
Worker_retry ==
    /\ worker.pc = "retry"
    /\ now >= Unwrap(worker.wake)
    /\ send_available(job_channel)
    /\ LET request == Unwrap(worker.request)
       IN job_channel' = Append(job_channel,
                                JobExecutionRequest(request.job,
                                                    request.attempt + 1))
    /\ worker' = WorkerIdle
    /\ UNCHANGED <<now, queue, facadeVars, qcall, running_jobs, job_results,
                   runs>>

\* A direct call of JobMonitor::track_job: the write guard is taken, the
\* JobHealth inserted, and update_stats waits for a read guard of the same
\* lock (qcall.ok tells whether the call has returned).
Monitor_track_job(job_id) ==
    /\ write_available(tracked_writer)
    /\ LET inserted == map_insert(tracked_jobs, job_id, JobHealth_new(job_id))
           guard == guard_during_update_stats("caller")
       IN /\ tracked_jobs' = inserted
          /\ IF read_available(guard)
             THEN /\ monitor' = [monitor EXCEPT
                                   !.stats = update_stats_internal(inserted)]
                  /\ UNCHANGED tracked_writer
             ELSE /\ tracked_writer' = guard
                  /\ UNCHANGED monitor
          /\ qcall' = [op |-> "track_job", id |-> job_id,
                       ok |-> read_available(guard), err |-> "", ret |-> None]
    /\ UNCHANGED <<now, queue, files, health_loops, callerVars, execVars>>

\* A direct call of JobMonitor::untrack_job.
Monitor_untrack_job(job_id) ==
    /\ write_available(tracked_writer)
    /\ IF contains_key(tracked_jobs, job_id)
       THEN LET removed == map_remove(tracked_jobs, job_id)
                guard == guard_during_update_stats("caller")
            IN /\ tracked_jobs' = removed
               /\ IF read_available(guard)
                  THEN /\ monitor' = [monitor EXCEPT
                                        !.stats = update_stats_internal(removed)]
                       /\ UNCHANGED tracked_writer
                  ELSE /\ tracked_writer' = guard
                       /\ UNCHANGED monitor
               /\ qcall' = [op |-> "untrack_job", id |-> job_id,
                            ok |-> read_available(guard), err |-> "",
                            ret |-> None]
       ELSE /\ qcall' = [op |-> "untrack_job", id |-> job_id, ok |-> TRUE,
                         err |-> "", ret |-> None]
            /\ UNCHANGED <<tracked_jobs, tracked_writer, monitor>>
    /\ UNCHANGED <<now, queue, files, health_loops, callerVars, execVars>>

\* The statuses callers report to the monitor.
StatusInputs == {"Running", "Completed", "Failed", "Cancelled"}

\* A direct call of JobMonitor::update_job_status.
Monitor_update_job_status(job_id, status) ==
    /\ write_available(tracked_writer)
    /\ IF contains_key(tracked_jobs, job_id)
       THEN /\ tracked_jobs[job_id].execution_count < MaxCount
            /\ tracked_jobs[job_id].failure_count < MaxCount
            /\ LET updated == [tracked_jobs EXCEPT
                                 ![job_id] = update_health(@, status)]
                   guard == guard_during_update_stats("caller")
               IN /\ tracked_jobs' = updated
                  /\ IF read_available(guard)
                     THEN /\ monitor' =
                               [monitor EXCEPT
                                  !.stats = update_stats_internal(updated)]
                          /\ UNCHANGED tracked_writer
                     ELSE /\ tracked_writer' = guard
                          /\ UNCHANGED monitor
                  /\ qcall' = [op |-> "update_job_status", id |-> job_id,
                               ok |-> read_available(guard), err |-> "",
                               ret |-> None]
       ELSE /\ qcall' = [op |-> "update_job_status", id |-> job_id,
                         ok |-> TRUE, err |-> "", ret |-> None]
            /\ UNCHANGED <<tracked_jobs, tracked_writer, monitor>>
    /\ UNCHANGED <<now, queue, files, health_loops, callerVars, execVars>>

\* A direct call of JobMonitor::get_job_status.
Monitor_get_job_status(job_id) ==
    /\ read_available(tracked_writer)
    /\ qcall' = IF contains_key(tracked_jobs, job_id)
                THEN [op |-> "get_job_status", id |-> job_id, ok |-> TRUE,
                      err |-> "", ret |-> Some(tracked_jobs[job_id].status)]
                ELSE [op |-> "get_job_status", id |-> job_id, ok |-> FALSE,
                      err |-> "JobNotFound", ret |-> None]
    /\ UNCHANGED <<now, queue, facadeVars, execVars>>

\* A direct call of JobMonitor::get_tracked_jobs.
Monitor_get_tracked_jobs ==
    /\ read_available(tracked_writer)
    /\ qcall' = [op |-> "get_tracked_jobs", id |-> 0, ok |-> TRUE, err |-> "",
                 ret |-> Some(map_values(tracked_jobs))]
    /\ UNCHANGED <<now, queue, facadeVars, execVars>>

\* A direct call of JobMonitor::start: is_active is set and a monitoring
\* loop spawned.
Monitor_start ==
    /\ Spawned(health_loops) < MaxStarts
    /\ monitor' = [monitor EXCEPT !.is_active = TRUE]
    /\ health_loops' = [health_loops EXCEPT !.check = @ + 1]
    /\ qcall' = [op |-> "start", id |-> 0, ok |-> TRUE, err |-> "",
                 ret |-> None]
    /\ UNCHANGED <<now, queue, files, tracked_jobs, tracked_writer, callerVars,
                   execVars>>

\* A direct call of JobMonitor::stop.
Monitor_stop ==
    /\ monitor' = [monitor EXCEPT !.is_active = FALSE]
    /\ qcall' = [op |-> "stop", id |-> 0, ok |-> TRUE, err |-> "", ret |-> None]
    /\ UNCHANGED <<now, queue, files, tracked_jobs, tracked_writer,
                   health_loops, callerVars, execVars>>

\* The caller gives up a call that has not returned (a timeout around it
\* elapses, or the calling task is aborted): the call's future is dropped,
\* and with it the write guard the call holds.
Monitor_drop_call ==
    /\ tracked_writer = "caller"
    /\ tracked_writer' = "none"
    /\ UNCHANGED <<now, queue, files, tracked_jobs, monitor, health_loops,
                   callerVars, qcall, execVars>>

ExecNext ==
    \/ \E job \in ExecInputs : Exec_execute_job(job)
    \/ \E job_id \in JobIds : Exec_cancel_job(job_id)
    \/ Worker_recv
    \/ \E output \in ProcessOutputs : Worker_execute(output)
    \/ Worker_store
    \/ Worker_retry

ExecSpec == Init /\ [][ExecNext]_vars

\* The process_jobs task is scheduled by the runtime whenever it can take a
\* step; callers are under no obligation.
WorkerFairness ==
    /\ WF_vars(Worker_recv)
    /\ WF_vars(\E output \in ProcessOutputs : Worker_execute(output))
    /\ WF_vars(Worker_store)
    /\ WF_vars(Worker_retry)

ExecFairSpec == ExecSpec /\ WorkerFairness

\* The executor with a caller that shuts it down.
ShutdownNext ==
    \/ \E job \in ExecInputs : Exec_execute_job(job)
    \/ Exec_stop
    \/ Worker_recv
    \/ \E output \in ProcessOutputs : Worker_execute(output)
    \/ Worker_store
    \/ Worker_retry

ShutdownSpec == Init /\ [][ShutdownNext]_vars

\* Jobs whose runs and retries are timed: a retry delay of one second with
\* and without exponential backoff, and a max_duration of one second.
TimedInputs ==
    UNION {
      { with_resource_limits(
          with_retry_policy(Job_new(id, "echo"),
                            [max_attempts |-> MaxAttempts, delay |-> 1,
                             exponential_backoff |-> b, max_delay |-> None]),
          [max_cpu |-> None, max_duration |-> Some(1)])
          : b \in BOOLEAN }
      : id \in JobIds }

\* The executor under a clock that advances.
TimedExecNext ==
    \/ Tick
    \/ \E job \in TimedInputs : Exec_execute_job(job)
    \/ Worker_recv
    \/ \E output \in ProcessOutputs : Worker_execute(output)
    \/ Worker_store
    \/ Worker_retry

TimedExecSpec == Init /\ [][TimedExecNext]_vars

\* Jobs that are run once: max_attempts = 1.
ResultInputs ==
    {with_retry_policy(Job_new(id, "echo"), RetryPolicy_immediate(1))
       : id \in JobIds}

\* The executor with callers that cancel jobs, under a clock that advances.
\* No job is retried, so the worker never stands at the retry send.
ResultNext ==
    \/ Tick
    \/ \E job \in ResultInputs : Exec_execute_job(job)
    \/ \E job_id \in JobIds : Exec_cancel_job(job_id)
    \/ Worker_recv
    \/ \E output \in ProcessOutputs : Worker_execute(output)
    \/ Worker_store

ResultSpec == Init /\ [][ResultNext]_vars

\* Retry policies whose delay is asked for: with and without exponential
\* backoff, with and without max_delay.
BackoffPolicies ==
    [max_attempts : {LateAttempt + 1}, delay : {0, 1, 2, 60},
     exponential_backoff : BOOLEAN,
     max_delay : {None, Some(1), Some(3), Some(3600)}]

\* The attempts a delay is asked for: the first ones and a late one (for
\* a policy without max_delay the first ones only, whose delays are small).
BackoffAttempts(rp) ==
    (1..(MaxAttempts + 1))
       \cup (IF IsSome(rp.max_delay) THEN {LateAttempt} ELSE {})

\* process_jobs calls calculate_retry_delay(&job, request.attempt).
Exec_calculate_retry_delay(job, attempt) ==
    /\ \E delay \in calculate_retry_delay(job, attempt) :
          qcall' = [op |-> "calculate_retry_delay", id |-> job.id,
                    ok |-> ~delay.panic,
                    err |-> IF delay.panic THEN "panic" ELSE "",
                    ret |-> IF delay.panic THEN None ELSE Some(delay.secs),
                    args |-> [job |-> job, attempt |-> attempt]]
    /\ UNCHANGED <<now, queue, facadeVars, execVars>>

BackoffNext ==
    \E id \in JobIds : \E rp \in BackoffPolicies :
       \E attempt \in BackoffAttempts(rp) :
          Exec_calculate_retry_delay(with_retry_policy(Job_new(id, "echo"), rp),
                                     attempt)

BackoffSpec == Init /\ [][BackoffNext]_vars

\* The executor together with a monitor that is asked to track jobs.
MonitoredExecNext ==
    \/ \E job \in ExecInputs : Exec_execute_job(job)
    \/ Worker_recv
    \/ \E output \in ProcessOutputs : Worker_execute(output)
    \/ Worker_store
    \/ Worker_retry
    \/ \E job_id \in JobIds : Monitor_track_job(job_id)

MonitoredExecSpec == Init /\ [][MonitoredExecNext]_vars
MonitoredExecFairSpec == MonitoredExecSpec /\ WorkerFairness

\* Jobs queued for dispatch: a recurring job and a one-shot job, retried
\* without delay.
DispatchInputs ==
    UNION {
      { with_retry_policy(with_cron(Job_new(id, "echo"), "*/2"),
                          RetryPolicy_immediate(3)),
        with_retry_policy(with_priority(with_time(Job_new(id, "echo"), 1),
                                        Low),
                          RetryPolicy_immediate(3)) }
      : id \in JobIds }

\* A caller hands the job that get_next_job has just returned to
\* execute_job (the two calls a dispatcher makes for a due job).
Dispatch ==
    /\ qcall.op = "get_next_job"
    /\ IsSome(qcall.ret)
    /\ Exec_execute_job(Unwrap(qcall.ret))

\* The queue and the executor driven by such a caller.
DispatchNext ==
    \/ Tick
    \/ \E job \in DispatchInputs : Queue_add_job(job)
    \/ Queue_get_next_job
    \/ Dispatch
    \/ Worker_recv
    \/ \E output \in ProcessOutputs : Worker_execute(output)
    \/ Worker_store
    \/ Worker_retry

DispatchSpec == Init /\ [][DispatchNext]_vars
DispatchFairSpec == DispatchSpec /\ WorkerFairness

\* --------------------------------------------------- the Scheduler facade
\* Jobs handed to Scheduler::add_job: a cron job, the same job at High
\* priority, and two jobs validate_job rejects.
FacadeInputs ==
    UNION {
      { with_cron(Job_new(id, "echo"), "0 18 * * *"),
        with_priority(with_cron(Job_new(id, "echo"), "0 18 * * *"), High),
        with_cron(Job_new(id, "echo"), "bad"),
        with_cron(Job_new(id, ""), "0 18 * * *") }
      : id \in JobIds }

\* Jobs with each of the flaws Parser::validate_schedule looks for.
MalformedInputs ==
    UNION {
      { with_timezone(with_cron(Job_new(id, "echo"), "0 18 * * *"), "Mars/Olympus"),
        with_event(Job_new(id, "echo"), FileCreatedNoPath),
        with_pattern(Job_new(id, "echo"), NegativeThreshold),
        with_pattern(Job_new(id, "echo"), ZeroWindow) }
      : id \in JobIds }

\* Scheduler::add_job, up to the first await: validate_job, then save_job
\* is entered.
Scheduler_add_job(job) ==
    /\ pc = "idle"
    /\ IF validate_job(job)
       THEN /\ pc' = "add_job.save_job"
            /\ result' = Pending
            /\ call' = [op |-> "add_job", id |-> job.id, job |-> Some(job),
                        pending |-> {}]
       ELSE /\ pc' = "idle"
            /\ call' = [op |-> "add_job", id |-> job.id, job |-> None,
                        pending |-> {}]
            /\ result' = ReturnErr(IF job.command = "" THEN "InvalidJob"
                                    ELSE "InvalidCronExpression")
    /\ UNCHANGED <<execVars, now, queue, files, monitorVars, qcall>>

\* save_job: File::create truncates or creates <id>.json.
Scheduler_add_job_create ==
    /\ pc = "add_job.save_job"
    /\ files' = save_job_create(files, Unwrap(call.job))
    /\ pc' = "add_job.write_all"
    /\ UNCHANGED <<execVars, now, queue, monitorVars, call, result, qcall>>

\* save_job: write_all and flush.
Scheduler_add_job_write ==
    /\ pc = "add_job.write_all"
    /\ files' = save_job_write(files, Unwrap(call.job))
    /\ pc' = "add_job.queue"
    /\ UNCHANGED <<execVars, now, queue, monitorVars, call, result, qcall>>


\* add_job: queue.add_job(job)?
Scheduler_add_job_queue ==
    /\ pc = "add_job.queue"
    /\ LET r == JobQueue_add_job(queue, Unwrap(call.job), now)
       IN /\ queue' = r.q
          /\ IF r.ok
             THEN pc' = "add_job.track_job" /\ UNCHANGED result
             ELSE pc' = "idle" /\ result' = ReturnErr(r.err)
    /\ call' = [call EXCEPT !.job = None]
    /\ UNCHANGED <<execVars, now, files, monitorVars, qcall>>

\* add_job: monitor.track_job(job_id).await?  The write guard is taken, the
\* health entry inserted and update_stats called, which waits for a read
\* guard of the same lock.
Scheduler_add_job_track ==
    /\ pc = "add_job.track_job"
    /\ write_available(tracked_writer)
    /\ LET inserted == map_insert(tracked_jobs, call.id, JobHealth_new(call.id))
           guard == guard_during_update_stats("caller")
       IN /\ tracked_jobs' = inserted
          /\ IF read_available(guard)
             THEN /\ monitor' = [monitor EXCEPT !.stats = update_stats_internal(inserted)]
                  /\ tracked_writer' = "none"
                  /\ pc' = "idle"
                  /\ result' = [ReturnOk EXCEPT !.id = call.id]
             ELSE /\ tracked_writer' = guard
                  /\ pc' = "track_job.update_stats"
                  /\ UNCHANGED <<monitor, result>>
    /\ UNCHANGED <<execVars, now, queue, files, health_loops, call, qcall>>

\* Scheduler::remove_job, up to the first await: queue.remove_job(job_id)?
Scheduler_remove_job(job_id) ==
    /\ pc = "idle"
    /\ call' = [op |-> "remove_job", id |-> job_id, job |-> None, pending |-> {}]
    /\ LET r == JobQueue_remove_job(queue, job_id)
       IN /\ queue' = r.q
          /\ IF r.ok
             THEN pc' = "remove_job.delete_job" /\ result' = Pending
             ELSE pc' = "idle" /\ result' = ReturnErr(r.err)
    /\ UNCHANGED <<execVars, now, files, monitorVars, qcall>>

\* remove_job: persistence.delete_job(job_id).await?
Scheduler_remove_job_delete ==
    /\ pc = "remove_job.delete_job"
    /\ files' = delete_job(files, call.id)
    /\ pc' = "remove_job.untrack_job"
    /\ UNCHANGED <<execVars, now, queue, monitorVars, call, result, qcall>>

\* remove_job: monitor.untrack_job(job_id).await?
Scheduler_remove_job_untrack ==
    /\ pc = "remove_job.untrack_job"
    /\ write_available(tracked_writer)
    /\ IF contains_key(tracked_jobs, call.id)
       THEN LET removed == map_remove(tracked_jobs, call.id)
                guard == guard_during_update_stats("caller")
            IN /\ tracked_jobs' = removed
               /\ IF read_available(guard)
                  THEN /\ monitor' = [monitor EXCEPT
                                        !.stats = update_stats_internal(removed)]
                       /\ tracked_writer' = "none"
                       /\ pc' = "idle"
                       /\ result' = ReturnOk
                  ELSE /\ tracked_writer' = guard
                       /\ pc' = "untrack_job.update_stats"
                       /\ UNCHANGED <<monitor, result>>
       ELSE /\ pc' = "idle"
            /\ result' = ReturnOk
            /\ UNCHANGED <<tracked_jobs, tracked_writer, monitor>>
    /\ UNCHANGED <<execVars, now, queue, files, health_loops, call, qcall>>

\* Scheduler::list_jobs, up to the first monitor call:
\* persistence.list_jobs().await?
Scheduler_list_jobs ==
    /\ pc = "idle"
    /\ LET jobs == list_jobs(files)
       IN /\ call' = [op |-> "list_jobs", id |-> 0, job |-> None, pending |-> jobs]
          /\ IF jobs = {}
             THEN pc' = "idle" /\ result' = ReturnOk
             ELSE pc' = "list_jobs.get_job_status" /\ result' = Pending
    /\ UNCHANGED <<execVars, now, queue, files, monitorVars, qcall>>

\* list_jobs: one iteration of the loop,
\* monitor.get_job_status(&job.id).await? for the next job of the listing
\* (read_dir yields the files in no particular order).
Scheduler_list_jobs_status ==
    /\ pc = "list_jobs.get_job_status"
    /\ read_available(tracked_writer)
    /\ \E entry \in call.pending :
          IF contains_key(tracked_jobs, entry.job.id)
          THEN /\ call' = [call EXCEPT !.pending = call.pending \ {entry}]
               /\ result' = [result EXCEPT
                     !.infos = result.infos \cup
                        {[job |-> entry.job,
                          status |-> tracked_jobs[entry.job.id].status]},
                     !.status = IF call.pending = {entry} THEN "Ok"
                                ELSE "pending"]
               /\ pc' = IF call.pending = {entry} THEN "idle" ELSE pc
          ELSE /\ call' = [call EXCEPT !.pending = {}]
               /\ result' = ReturnErr("JobNotFound")
               /\ pc' = "idle"
    /\ UNCHANGED <<execVars, now, queue, files, monitorVars, qcall>>

\* Scheduler::start, up to load_persisted_jobs: executor.start logs;
\* monitor.start sets is_active and spawns a monitoring loop;
\* load_persisted_jobs lists the persisted jobs.
Scheduler_start ==
    /\ pc = "idle"
    /\ Spawned(health_loops) < MaxStarts
    /\ monitor' = [monitor EXCEPT !.is_active = TRUE]
    /\ health_loops' = [health_loops EXCEPT !.check = @ + 1]
    /\ LET jobs == list_jobs(files)
       IN /\ call' = [op |-> "start", id |-> 0, job |-> None, pending |-> jobs]
          /\ IF jobs = {}
             THEN pc' = "idle" /\ result' = ReturnOk
             ELSE pc' = "start.load_persisted_jobs" /\ result' = Pending
    /\ UNCHANGED <<execVars, now, queue, files, tracked_jobs, tracked_writer, qcall>>

\* Mutant of load_persisted_job: the job is reported loaded without being
\* inserted.
load_persisted_job_dropped(q, job, t) == Ok(q)

\* The result of one iteration of load_persisted_jobs' loop for `job`.
load_persisted_job(q, job, t) == JobQueue_add_job(q, job, t)

\* load_persisted_jobs: one iteration of the loop, queue.add_job(job)?
Scheduler_start_load ==
    /\ pc = "start.load_persisted_jobs"
    /\ \E entry \in call.pending :
          LET r == load_persisted_job(queue, entry.job, now)
          IN /\ queue' = r.q
             /\ IF r.ok
                THEN /\ call' = [call EXCEPT !.pending = call.pending \ {entry}]
                     /\ pc' = IF call.pending = {entry} THEN "idle" ELSE pc
                     /\ result' = IF call.pending = {entry} THEN ReturnOk
                                  ELSE result
                ELSE /\ call' = [call EXCEPT !.pending = {}]
                     /\ pc' = "idle"
                     /\ result' = ReturnErr(r.err)
    /\ UNCHANGED <<execVars, now, files, monitorVars, qcall>>

\* Scheduler::stop: executor.stop logs; monitor.stop clears is_active.
Scheduler_stop ==
    /\ pc = "idle"
    /\ call' = [op |-> "stop", id |-> 0, job |-> None, pending |-> {}]
    /\ monitor' = [monitor EXCEPT !.is_active = FALSE]
    /\ result' = ReturnOk
    /\ UNCHANGED <<execVars, now, queue, files, tracked_jobs, tracked_writer, health_loops,
                   pc, qcall>>

\* The monitoring loop of JobMonitor::start: `while *is_active.read().await`
HealthLoop_check ==
    /\ health_loops.check > 0
    /\ health_loops' =
          IF monitor.is_active
          THEN [health_loops EXCEPT !.check = @ - 1, !.tick = @ + 1]
          ELSE [health_loops EXCEPT !.check = @ - 1, !.exited = @ + 1]
    /\ UNCHANGED <<execVars, now, queue, files, tracked_jobs, tracked_writer, monitor,
                   callerVars, qcall>>

\* The monitoring loop: interval.tick().await, then perform_health_checks,
\* which takes the write guard and calls update_stats_internal, which waits
\* for a read guard of the same lock.
HealthLoop_perform ==
    /\ health_loops.tick > 0
    /\ write_available(tracked_writer)
    /\ LET guard == guard_during_update_stats("loop")
       IN IF read_available(guard)
          THEN /\ monitor' = [monitor EXCEPT
                                !.stats = update_stats_internal(tracked_jobs)]
               /\ health_loops' = [health_loops EXCEPT !.tick = @ - 1,
                                                       !.check = @ + 1]
               /\ UNCHANGED tracked_writer
          ELSE /\ tracked_writer' = guard
               /\ health_loops' = [health_loops EXCEPT !.tick = @ - 1,
                                                       !.update_stats = @ + 1]
               /\ UNCHANGED monitor
    /\ UNCHANGED <<execVars, now, queue, files, tracked_jobs, callerVars, qcall>>

\* The process ends (exit, kill or crash) and a new one is started over the
\* same storage directory: Scheduler::new().
Restart ==
    /\ queue' = JobQueue_new
    /\ tracked_jobs' = << >>
    /\ tracked_writer' = "none"
    /\ monitor' = [stats |-> MonitorStats_default, is_active |-> FALSE]
    /\ health_loops' = NoLoops
    /\ pc' = "idle"
    /\ call' = NoFacadeCall
    /\ result' = NoResult
    /\ job_channel' = << >>
    /\ running_jobs' = << >>
    /\ job_results' = << >>
    /\ worker' = WorkerIdle
    /\ runs' = << >>
    /\ UNCHANGED <<now, files, qcall>>

Next ==
    \/ Tick
    \/ \E job \in FacadeInputs : Scheduler_add_job(job)
    \/ Scheduler_add_job_create
    \/ Scheduler_add_job_write
    \/ Scheduler_add_job_queue
    \/ Scheduler_add_job_track
    \/ \E job_id \in JobIds : Scheduler_remove_job(job_id)
    \/ Scheduler_remove_job_delete
    \/ Scheduler_remove_job_untrack
    \/ Scheduler_list_jobs
    \/ Scheduler_list_jobs_status
    \/ Scheduler_start
    \/ Scheduler_start_load
    \/ Scheduler_stop
    \/ HealthLoop_check
    \/ HealthLoop_perform
    \/ Restart

Spec == Init /\ [][Next]_vars

\* The monitor as tasks that call its API drive it, with its monitoring
\* loops.
MonitorNext ==
    \/ \E job_id \in JobIds : Monitor_track_job(job_id)
    \/ \E job_id \in JobIds : Monitor_untrack_job(job_id)
    \/ \E job_id \in JobIds : \E status \in StatusInputs :
          Monitor_update_job_status(job_id, status)
    \/ \E job_id \in JobIds : Monitor_get_job_status(job_id)
    \/ Monitor_get_tracked_jobs
    \/ Monitor_start
    \/ Monitor_stop
    \/ Monitor_drop_call
    \/ HealthLoop_check
    \/ HealthLoop_perform

MonitorSpec == Init /\ [][MonitorNext]_vars

\* cli::disable_job: prints and returns Ok(()).
Cli_disable_job(job_id) ==
    /\ pc = "idle"
    /\ call' = [op |-> "disable_job", id |-> job_id, job |-> None,
                pending |-> {}]
    /\ result' = ReturnOk
    /\ UNCHANGED <<now, queue, files, monitorVars, pc, qcall, execVars>>

\* cli::enable_job: prints and returns Ok(()).
Cli_enable_job(job_id) ==
    /\ pc = "idle"
    /\ call' = [op |-> "enable_job", id |-> job_id, job |-> None,
                pending |-> {}]
    /\ result' = ReturnOk
    /\ UNCHANGED <<now, queue, files, monitorVars, pc, qcall, execVars>>

\* Jobs handed to add_job by the command line: an event-triggered job
\* (always due) and a daily cron job.
CliInputs ==
    UNION {
      { with_event(Job_new(id, "echo"), SystemStartup),
        with_cron(Job_new(id, "echo"), "0 18 * * *") }
      : id \in JobIds }

\* The scheduler as the command line drives it: jobs are added, the
\* process is restarted and started, jobs are disabled and enabled, and
\* the clock advances.
CliNext ==
    \/ Tick
    \/ \E job \in CliInputs : Scheduler_add_job(job)
    \/ Scheduler_add_job_create
    \/ Scheduler_add_job_write
    \/ Scheduler_add_job_queue
    \/ Scheduler_add_job_track
    \/ Scheduler_start
    \/ Scheduler_start_load
    \/ HealthLoop_check
    \/ HealthLoop_perform
    \/ \E job_id \in JobIds : Cli_disable_job(job_id)
    \/ \E job_id \in JobIds : Cli_enable_job(job_id)
    \/ Restart

CliSpec == Init /\ [][CliNext]_vars

\* The tasks the scheduler itself runs are scheduled whenever they can take
\* a step; callers and restarts are under no obligation.
CliFairSpec ==
    /\ CliSpec
    /\ WF_vars(Scheduler_start_load)
    /\ WF_vars(HealthLoop_check)
    /\ WF_vars(HealthLoop_perform)

\* Job definitions found in files of the storage directory.
DirJobs ==
    UNION {
      { with_cron(Job_new(id, "echo"), "0 18 * * *"),
        with_priority(with_cron(Job_new(id, "echo"), "0 18 * * *"), High) }
      : id \in JobIds }

\* What a file of the given name may hold: <id>.json a definition of job
\* id, any other file a definition of any job, and every file garbage.
DirContents(name) ==
    {Garbage} \cup
       {to_string_pretty(job) :
          job \in {j \in DirJobs : name \in JobIds => j.id = name}}

\* Something other than the scheduler writes a file into the storage
\* directory while no facade call is in progress.
Dir_put(name, content) ==
    /\ pc = "idle"
    /\ files' = map_insert(files, name, content)
    /\ UNCHANGED <<now, queue, monitorVars, callerVars, qcall, execVars>>

\* Scheduler processes started over a storage directory that holds job
\* files, corrupt files, copies and files of other kinds.
DirNext ==
    \/ \E name \in JobIds \cup {CopyJson, NotesTxt} :
          \E content \in DirContents(name) : Dir_put(name, content)
    \/ Scheduler_start
    \/ Scheduler_start_load
    \/ Restart

DirSpec == Init /\ [][DirNext]_vars

\* add_job calls only, with every kind of malformed job among the inputs.
ValidationNext ==
    \/ \E job \in FacadeInputs \cup MalformedInputs : Scheduler_add_job(job)
    \/ Scheduler_add_job_create
    \/ Scheduler_add_job_write
    \/ Scheduler_add_job_queue
    \/ Scheduler_add_job_track
    \/ Restart

ValidationSpec == Init /\ [][ValidationNext]_vars

\* ----------------------------------------------------- claims on the facade
Persisted(id) == contains_key(files, id) /\ IsSome(from_str(files[id]))
PersistedJob(id) == Unwrap(from_str(files[id]))
QueueEntries(id) == {e \in queue.jobs : e.job.id = id}
Queued(id) == contains_key(queue.job_index, id) /\ QueueEntries(id) # {}
Tracked(id) == contains_key(tracked_jobs, id)

\* The steps of add_job before monitor.track_job has acted.
AddJobBeforeTrack ==
    {"add_job.save_job", "add_job.write_all", "add_job.queue", "add_job.track_job"}

\* C1: add_job of a valid job with a JobId not yet known returns Ok(j.id),
\* and then the job is persisted, queued and tracked with status Scheduled:
\* once the call has passed validation, persisting and queue insertion and
\* has tracked the job, it has returned Ok.
C1_AddJobReturnsOk ==
    (call.op = "add_job" /\ result.status # "Err" /\ pc \notin AddJobBeforeTrack)
      => /\ pc = "idle"
         /\ result.status = "Ok" /\ result.id = call.id
         /\ Persisted(call.id) /\ Queued(call.id) /\ Tracked(call.id)
         /\ tracked_jobs[call.id].status = "Scheduled"

\* What the claim counts as a valid job: the schedule passes
\* Parser::validate_schedule and the command is not empty.
ClaimedValid(job) == validate_schedule(job.schedule) /\ job.command # ""

\* C2: a job that fails validation (invalid cron, bad timezone, empty
\* command, file event without path, negative threshold, zero window) is
\* neither persisted nor inserted into the queue by add_job.
C2_InvalidJobRejected ==
    /\ \A id \in DOMAIN files : Persisted(id) => ClaimedValid(PersistedJob(id))
    /\ \A e \in queue.jobs : ClaimedValid(e.job)

\* C3: when add_job fails at queue insertion with JobAlreadyExists, the file
\* this call wrote has been deleted when the error is returned.
C3_RollbackOnDuplicate ==
    (call.op = "add_job" /\ pc = "idle" /\ result.err = "JobAlreadyExists")
      => ~contains_key(files, call.id)

\* C4: after remove_job(id) has returned Ok, id is absent from the queue,
\* from persistence and from the monitor.
C4_RemovedEverywhere ==
    (call.op = "remove_job" /\ pc = "idle" /\ result.status = "Ok")
      => /\ ~contains_key(queue.job_index, call.id)
         /\ QueueEntries(call.id) = {}
         /\ ~contains_key(files, call.id)
         /\ ~Tracked(call.id)

\* C4 witness: remove_job has returned Ok (the job was persisted by an
\* add_job call and loaded by start) while another job is still queued.
C4_Witness ==
    /\ call.op = "remove_job" /\ pc = "idle" /\ result.status = "Ok"
    /\ queue.jobs # {}

\* C5: remove_job of an id that is not in the queue returns NotFound and
\* leaves queue, persistence and monitor unchanged.
C5_RemoveAbsentNotFound ==
    [][\A job_id \in JobIds :
         (Scheduler_remove_job(job_id) /\ ~contains_key(queue.job_index, job_id))
           => /\ pc' = "idle"
              /\ result'.status = "Err" /\ result'.err = "JobNotFound"
              /\ UNCHANGED <<queue, files, tracked_jobs, tracked_writer, monitor>>]_vars

\* C5 witness: remove_job has returned JobNotFound for an id whose file is
\* gone, with a job still in the queue (a second remove after a successful
\* one leaves the rest alone).
C5_Witness ==
    /\ call.op = "remove_job" /\ pc = "idle" /\ result.err = "JobNotFound"
    /\ ~contains_key(files, call.id)
    /\ queue.jobs # {}

\* C6: on restart, once the first start of the process has returned, it has
\* returned Ok and the queue holds exactly one entry for every persisted job
\* that decodes, carrying that job.
C6_RestartLoadsEachOnce ==
    (call.op = "start" /\ pc = "idle")
      => /\ Spawned(health_loops) = 1 => result.status = "Ok"
         /\ result.status = "Ok" =>
               \A id \in DOMAIN files :
                  Persisted(id) =>
                     /\ contains_key(queue.job_index, id)
                     /\ queue.job_index[id].job = PersistedJob(id)
                     /\ Cardinality(QueueEntries(id)) = 1

\* C6 witness: the first start of a process has returned with two persisted
\* jobs.
C6_Witness ==
    /\ call.op = "start" /\ pc = "idle" /\ Spawned(health_loops) = 1
    /\ Cardinality(list_jobs(files)) >= 2

\* C7: after a restart, start has put every persisted job into the queue and
\* into the monitor, and list_jobs returns Ok with every persisted job and
\* its monitor status.
C7_RestartListsJobs ==
    /\ (call.op = "start" /\ pc = "idle" /\ result.status = "Ok")
         => \A entry \in list_jobs(files) :
               Queued(entry.job.id) /\ Tracked(entry.job.id)
    /\ (call.op = "list_jobs" /\ pc = "idle" /\ Spawned(health_loops) >= 1)
         => /\ result.status = "Ok"
            /\ {info.job : info \in result.infos}
                  = {entry.job : entry \in list_jobs(files)}

\* --------------------------------------------------- claims on the executor
RequestsOf(id) ==
    {i \in DOMAIN job_channel : job_channel[i].job.id = id}
MaxAttemptsOf(id) == runs[id].job.retry_policy.max_attempts
AllFailed(log) == \A i \in DOMAIN log : log[i] = "Failed"

\* C14: a recurring (cron) job that has been dispatched and whose run has
\* completed is eventually in the queue again with a next_execution.
C14_RecurringRequeued ==
    \A id \in JobIds :
       (/\ contains_key(runs, id) /\ IsSome(runs[id].job.schedule.cron)
        /\ contains_key(job_results, id) /\ job_results[id].status = "Completed")
          ~> (Queued(id) /\ IsSome(queue.job_index[id].next_execution))

\* Scheduler::start has been called and is not in progress.
Started == monitor.is_active /\ ~(call.op = "start" /\ pc # "idle")

\* C15: once start has returned, every enabled queued job that is due is
\* eventually submitted to the executor.
C15_TickLoopDispatches ==
    \A id \in JobIds :
       (/\ Started /\ Queued(id)
        /\ queue.job_index[id].job.enabled
        /\ is_due(queue.job_index[id], now))
          ~> contains_key(runs, id)

\* C16: when the executor has produced a JobResult for a job the monitor
\* tracks, the monitor's status of the job eventually is the outcome of a
\* run instead of remaining Scheduled.
C16_ResultReachesMonitor ==
    \A id \in JobIds :
       (contains_key(job_results, id) /\ Tracked(id))
          ~> (Tracked(id) /\ tracked_jobs[id].status # "Scheduled")

\* The job is known to the scheduler: it is persisted or queued.
Known(id) == Persisted(id) \/ contains_key(queue.job_index, id)

\* C17: disable_job / enable_job on a known job flip its enabled flag in
\* the persisted definition and in the queue entry; on an unknown id they
\* return NotFound and change nothing.
C17_EnableDisable ==
    [][\A id \in JobIds :
         /\ (Cli_disable_job(id) \/ Cli_enable_job(id)) =>
               IF Known(id)
               THEN /\ result'.status = "Ok"
                    /\ Persisted(id)' /\ Queued(id)'
                    /\ PersistedJob(id)'.enabled = Cli_enable_job(id)
                    /\ queue'.job_index[id].job.enabled = Cli_enable_job(id)
               ELSE /\ result'.status = "Err" /\ result'.err = "JobNotFound"
                    /\ UNCHANGED <<queue, files, tracked_jobs>>]_vars

\* C18: execute_job rejects a job with an empty command or with enabled =
\* false with InvalidJob and enqueues nothing (no request of such a job is
\* ever in the channel); for a valid job it enqueues exactly one request
\* with attempt = 1 and returns the JobId.
C18_ExecuteJobValidates ==
    [][/\ \A job \in ExecInputs :
            Exec_execute_job(job) =>
               IF job.command = "" \/ ~job.enabled
               THEN /\ ~qcall'.ok /\ qcall'.err = "InvalidJob"
                    /\ UNCHANGED <<job_channel, running_jobs, job_results,
                                   worker, runs>>
               ELSE /\ qcall'.ok /\ qcall'.id = job.id
                    /\ job_channel' =
                          Append(job_channel, [job |-> job, attempt |-> 1])
                    /\ UNCHANGED <<running_jobs, job_results, worker>>
       /\ \A i \in DOMAIN job_channel' :
            job_channel'[i].job.command # "" /\ job_channel'[i].job.enabled]_vars

\* C18 witness: execute_job has rejected a job while the request of a job
\* it accepted is in the channel.
C18_Witness ==
    /\ qcall.op = "execute_job" /\ qcall.err = "InvalidJob"
    /\ ~contains_key(runs, qcall.id)
    /\ \E i \in DOMAIN job_channel : job_channel[i].attempt = 1

\* C19: a submission of a job with max_attempts = N never has more than N
\* runs, no run follows a run that completed, and while every run has
\* failed and fewer than N runs were made another run follows; after N
\* failed runs the stored status is Failed.
C19_RetryCount ==
    /\ [](\A id \in DOMAIN runs :
            /\ Len(runs[id].log) <= MaxAttemptsOf(id)
            /\ \A i \in DOMAIN runs[id].log :
                  runs[id].log[i] = "Completed" => i = Len(runs[id].log))
    /\ \A id \in JobIds : \A k \in 1..MaxAttempts :
          /\ (/\ contains_key(runs, id) /\ k < MaxAttemptsOf(id)
              /\ Len(runs[id].log) = k /\ AllFailed(runs[id].log))
                ~> (contains_key(runs, id) /\ Len(runs[id].log) > k)
          /\ (/\ contains_key(runs, id) /\ k = MaxAttemptsOf(id)
              /\ Len(runs[id].log) = k /\ AllFailed(runs[id].log))
                ~> (contains_key(job_results, id) /\ job_results[id].status = "Failed")

\* C20: after cancel_job has removed a job from the running-set, the job
\* stays out of the running-set, its stored result stays Cancelled and no
\* request of a retry of it is in the channel.
C20_CancelIsTerminal ==
    \A id \in DOMAIN runs :
       runs[id].cancelled =>
          /\ ~contains_key(running_jobs, id)
          /\ contains_key(job_results, id) /\ job_results[id].status = "Cancelled"
          /\ RequestsOf(id) = {}

\* C21: when JobExecutor::stop returns, the running-set is empty and every
\* job that was in it has a stored result with status Cancelled.
C21_StopDrainsRunningSet ==
    [][Exec_stop =>
         /\ running_jobs' = << >>
         /\ \A id \in DOMAIN running_jobs :
               /\ contains_key(job_results', id)
               /\ job_results'[id].status = "Cancelled"]_vars

\* C22: a request in the channel can start its run (enter the running-set)
\* while a job with another JobId is in the running-set or waits out its
\* retry delay.
C22_ParallelRuns ==
    \A id \in JobIds :
       (/\ job_channel # << >> /\ Head(job_channel).job.id # id
        /\ \/ contains_key(running_jobs, id)
           \/ worker.pc = "retry" /\ Unwrap(worker.request).job.id = id)
          => ENABLED Worker_recv

\* C24: at every point, a crash between the steps of save_job included,
\* each file <id>.json holds a complete job definition, never an empty or
\* partial one.
C24_SaveAtomic ==
    \A id \in DOMAIN files : IsSome(from_str(files[id]))

\* The run in progress has lasted longer than the job's max_duration.
RunExceedsMaxDuration ==
    /\ worker.pc = "execute"
    /\ LET job == Unwrap(worker.request).job
       IN /\ contains_key(running_jobs, job.id)
          /\ IsSome(job.resource_limits.max_duration)
          /\ now - running_jobs[job.id].start_time
                > Unwrap(job.resource_limits.max_duration)

\* C23: a run that exceeds resource_limits.max_duration is recorded as
\* Failed (with error "timeout"), never as Completed.
C23_TimeoutFails ==
    [][\A output \in ProcessOutputs :
         (RunExceedsMaxDuration /\ Worker_execute(output))
            => Unwrap(worker'.result).status = "Failed"]_vars

\* C29: when attempt n+1 of a job is put into the running-set, the job is
\* not in the running-set, the result of attempt n is stored, and the retry
\* delay computed for attempt n has elapsed since it was stored.
C29_SerialRetry ==
    [][(Worker_recv /\ Head(job_channel).attempt > 1) =>
         LET request == Head(job_channel)
             id == request.job.id
         IN /\ ~contains_key(running_jobs, id)
            /\ Len(runs[id].log) = request.attempt - 1
            /\ contains_key(job_results, id)
            /\ job_results[id].status = "Failed"
            /\ IsSome(runs[id].stored_at)
            /\ \A delay \in calculate_retry_delay(request.job,
                                                    request.attempt - 1) :
                  ~delay.panic =>
                     now >= Unwrap(runs[id].stored_at) + delay.secs]_vars

\* C29 witness: the second attempt of a job with a retry delay of one
\* second is in the running-set.
C29_Witness ==
    \E id \in DOMAIN running_jobs :
       /\ running_jobs[id].attempt = 2
       /\ running_jobs[id].job.retry_policy.delay = 1
       /\ running_jobs[id].start_time >= 1


RECURSIVE CappedDouble(_, _, _)
\* min(d * 2^e, cap)
CappedDouble(d, e, cap) ==
    IF e = 0 \/ d >= cap THEN min(d, cap) ELSE CappedDouble(2 * d, e - 1, cap)

\* The delay the backoff rule states for the retry after failed attempt k.
ExpectedDelay(rp, k) ==
    IF ~rp.exponential_backoff THEN rp.delay
    ELSE IF IsSome(rp.max_delay)
         THEN CappedDouble(rp.delay, k - 1, Unwrap(rp.max_delay))
         ELSE rp.delay * 2^(k - 1)

\* C30: the retry delay computed after failed attempt k is delay when
\* exponential_backoff is false and min(delay * 2^(k-1), max_delay)
\* otherwise (no cap without max_delay), for every attempt number up to
\* max_attempts, and the computation does not overflow.
C30_RetryBackoff ==
    qcall.op = "calculate_retry_delay" =>
       /\ qcall.ok
       /\ qcall.ret = Some(ExpectedDelay(qcall.args.job.retry_policy,
                                         qcall.args.attempt))

\* C25: load_job right after save_job(j) returns a job equal to j, whatever
\* was stored under the id before; load_job of an id without a file fails
\* with JobNotFound.
C25_RoundTrip ==
    [][\A id \in JobIds :
         Persist_load_job(id) =>
            /\ (qcall.op = "save_job" /\ qcall.id = id)
                  => qcall'.ok /\ qcall'.ret = Some(qcall.args.job)
            /\ ~contains_key(files, id)
                  => ~qcall'.ok /\ qcall'.err = "JobNotFound"]_vars

\* Scheduler::start returns in this step.
StartReturns ==
    /\ Scheduler_start \/ Scheduler_start_load
    /\ call'.op = "start" /\ pc' = "idle"

\* C26: list_jobs yields exactly the .json files that decode, and the
\* first start of a process returns Ok with the job of each of them queued,
\* whatever files the directory holds.
C26_CorruptFilesSkipped ==
    [][/\ Scheduler_start =>
            {entry.file : entry \in list_jobs(files)}
               = {f \in DOMAIN files : f # NotesTxt /\ files[f].bytes = "json"}
       /\ (StartReturns /\ Spawned(health_loops') = 1) =>
            /\ result'.status = "Ok"
            /\ \A entry \in list_jobs(files) :
                  /\ contains_key(queue'.job_index, entry.job.id)
                  /\ queue'.job_index[entry.job.id].job = entry.job]_vars

\* C27: an instant next_execution returns is strictly greater than `after`
\* (so that feeding each result back as `after` gives a strictly
\* increasing sequence).
C27_StrictlyAfter ==
    (qcall.op = "next_execution" /\ qcall.ok /\ IsSome(qcall.ret))
       => Unwrap(qcall.ret) > qcall.args.after

\* The next occurrence of the schedule's cron after t, and its one-shot
\* instant if that is after t.
CronOccurrence(schedule, t) ==
    IF IsSome(schedule.cron) /\ parse_cron_ok(Unwrap(schedule.cron))
    THEN cron_after(Unwrap(schedule.cron), t)
    ELSE None
FutureAt(schedule, t) ==
    IF IsSome(schedule.at) /\ Unwrap(schedule.at) > t THEN schedule.at
    ELSE None

\* C28: for a schedule with both cron and at set and at in the future, the
\* next execution that Parser::next_execution and the queue compute is the
\* smaller of the cron's next occurrence and at; for a schedule with only
\* event or pattern triggers it is None.
C28_EarlierOfCronAndAt ==
    (qcall.op \in {"next_execution", "calculate_next_execution"} /\ qcall.ok)
       => LET schedule == qcall.args.schedule
              c == CronOccurrence(schedule, qcall.args.after)
              a == FutureAt(schedule, qcall.args.after)
          IN /\ (IsSome(c) /\ IsSome(a))
                   => qcall.ret = Some(min(Unwrap(c), Unwrap(a)))
             /\ (IsNone(schedule.cron) /\ IsNone(schedule.at))
                   => qcall.ret = None

\* C31: every JobResult the executor has stored (by the worker or by
\* cancel_job) has status Completed, Failed or Cancelled, has ended_at set
\* with started_at <= ended_at, and has status Completed exactly when the
\* process exited with code zero.
C31_StoredResultWellFormed ==
    \A id \in DOMAIN job_results :
       LET r == job_results[id]
       IN /\ r.status \in {"Completed", "Failed", "Cancelled"}
          /\ IsSome(r.ended_at) /\ r.started_at <= Unwrap(r.ended_at)
          /\ r.status = "Completed" <=> r.exit_code = Some(0)

\* C31 witness: the stored results are one of cancel_job and one of a run
\* that took time and whose process was ended by a signal.
C31_Witness ==
    \E a, b \in DOMAIN job_results :
       /\ job_results[a].status = "Cancelled"
       /\ job_results[b].status = "Failed" /\ job_results[b].exit_code = None
       /\ job_results[b].started_at < Unwrap(job_results[b].ended_at)

\* --------------------------------------------------- claims on the monitor
\* C32: track_job(id) returns Ok and afterwards id is tracked with status
\* Scheduled, execution_count 0 and failure_count 0; untrack_job(id)
\* returns Ok and afterwards id is not tracked.
C32_TrackAndUntrack ==
    [][\A id \in JobIds :
         /\ Monitor_track_job(id) =>
               /\ qcall'.ok
               /\ contains_key(tracked_jobs', id)
               /\ tracked_jobs'[id].status = "Scheduled"
               /\ tracked_jobs'[id].execution_count = 0
               /\ tracked_jobs'[id].failure_count = 0
         /\ Monitor_untrack_job(id) =>
               /\ qcall'.ok
               /\ ~contains_key(tracked_jobs', id)]_vars

\* C33: update_job_status(id, s) on a tracked id returns Ok and sets the
\* job's status to s; execution_count grows by one exactly when s is
\* Completed, failure_count by one exactly when s is Failed; the health
\* records of the other jobs are unchanged.
C33_UpdateJobStatus ==
    [][\A id \in JobIds : \A s \in StatusInputs :
         (Monitor_update_job_status(id, s) /\ contains_key(tracked_jobs, id))
            => /\ qcall'.ok
               /\ DOMAIN tracked_jobs' = DOMAIN tracked_jobs
               /\ tracked_jobs'[id].status = s
               /\ tracked_jobs'[id].execution_count =
                     tracked_jobs[id].execution_count
                        + (IF s = "Completed" THEN 1 ELSE 0)
               /\ tracked_jobs'[id].failure_count =
                     tracked_jobs[id].failure_count
                        + (IF s = "Failed" THEN 1 ELSE 0)
               /\ \A o \in DOMAIN tracked_jobs \ {id} :
                     tracked_jobs'[o] = tracked_jobs[o]]_vars

\* C35: the monitor is deadlock-free: no task waits in update_stats for a
\* read guard of the tracked-jobs lock while it holds the lock's write
\* guard itself (the only case in which a guard is kept beyond a step), so
\* every call and every health-check tick returns and releases the lock.
C35_MonitorDeadlockFree ==
    \A task \in {"caller", "loop"} :
       tracked_writer # guard_during_update_stats(task)

\* C37: each tracked job has failure_count <= execution_count.
C37_FailureRateBounded ==
    \A id \in DOMAIN tracked_jobs :
       tracked_jobs[id].failure_count <= tracked_jobs[id].execution_count

\* C38: the statistics give total_jobs as the number of tracked jobs, and
\* whenever total_executions > 0 the total_failures are <= total_executions
\* (the unsigned subtraction of the success rate does not underflow).
C38_StatsNoUnderflow ==
    /\ monitor.stats.total_jobs = Cardinality(DOMAIN tracked_jobs)
    /\ total_executions(tracked_jobs) > 0
          => total_failures(tracked_jobs) <= total_executions(tracked_jobs)

\* C34: durability before visibility: in every state of the facade, the
\* states inside add_job and remove_job included, every JobId in the queue
\* (index or heap) has a persisted job file, a file <id>.json that holds a
\* job definition.
C34_DurabilityBeforeVisibility ==
    /\ \A id \in DOMAIN queue.job_index : Persisted(id)
    /\ \A e \in queue.jobs : Persisted(e.job.id)

\* C36: every request accepted into the executor's channel is eventually
\* taken out of it and run, and the worker never blocks for ever: when it
\* re-enqueues a retry request (the channel may be full at that moment)
\* the send completes and the worker receives again.
C36_WorkerNeverBlocks ==
    /\ \A id \in JobIds : (RequestsOf(id) # {}) ~> (RequestsOf(id) = {})
    /\ (worker.pc = "retry") ~> (worker.pc = "recv")

\* C39: after any sequence of add_job, remove_job, update_job, get_next_job
\* and clear, the heap and the id index hold the same JobIds, each id once
\* in the heap, and len() is the number of entries in the heap.
C39_IndexConsistent ==
    /\ {e.job.id : e \in queue.jobs} = DOMAIN queue.job_index
    /\ \A e, f \in queue.jobs : e.job.id = f.job.id => e = f
    /\ JobQueue_len(queue) = Cardinality(queue.jobs)

\* C39 witness: get_next_job has returned a job that had been queued by
\* update_job or add_job, and another job is still queued.
C39_Witness ==
    /\ qcall.op = "get_next_job" /\ IsSome(qcall.ret)
    /\ Cardinality(queue.jobs) = 1
    /\ queue.stats.total_jobs >= 3

\* C40: whenever Scheduler::start has returned, a second start of the same
\* instance included, it has returned Ok (never JobAlreadyExists) and the
\* queue holds exactly one entry for every persisted job.
C40_StartRepeatable ==
    (call.op = "start" /\ pc = "idle")
      => /\ result.status = "Ok"
         /\ \A entry \in list_jobs(files) :
               Cardinality(QueueEntries(entry.job.id)) = 1

====
